---- MODULE Spec2Model ----
(***************************************************************************)
(* Frame loop of the antithesis renderer (src/antithesis/src/app.rs):      *)
(* the winit event loop of VulkanApp::run, the per-frame protocol of       *)
(* VulkanApp::draw_frame, and the Vulkan objects the protocol drives       *)
(* (fences, binary semaphores, the graphics queue, the presentation        *)
(* engine and the swapchain images).                                       *)
(***************************************************************************)
EXTENDS Integers, Sequences, FiniteSets, TLC

\* ---------------------------------------------------------------- constants

\* app.rs:185  const MAX_FRAMES_IN_FLIGHT: usize = 2;
MAX_FRAMES_IN_FLIGHT == 2

\* Number of images the swapchain hands back from get_swapchain_images.
NumImages == 3

Slots == 0 .. (MAX_FRAMES_IN_FLIGHT - 1)
Images == 0 .. (NumImages - 1)
NoImage == -1

\* ash maps VK_SUCCESS / VK_SUBOPTIMAL_KHR to Ok and everything else to Err.
OkResults == {"SUCCESS", "SUBOPTIMAL"}
StaleResults == {"SUBOPTIMAL", "OUT_OF_DATE"}
\* Results of calls that have no swapchain status (wait, reset, submit, idle).
PlainResults == {"SUCCESS", "ERROR"}
\* Results of acquire_next_image and queue_present.
SwapchainResults == {"SUCCESS", "SUBOPTIMAL", "OUT_OF_DATE", "ERROR"}

\* Every object VulkanApp::initialize creates from the logical device, and
\* the device itself.
SwapchainDerived ==
    {"command_buffers", "framebuffers", "pipeline", "pipeline_layout",
     "render_pass", "image_views", "swapchain"}
SyncObjectNames == {"semaphores", "fences"}
DeviceChildren == SwapchainDerived \cup SyncObjectNames \cup {"command_pool"}
AllObjects == DeviceChildren \cup {"device"}

\* ---------------------------------------------------------------- state

VARIABLES
    phase,                       \* "running" | "idle_wait" | "exited" | "panicked"
    control_flow,                \* winit ControlFlow: "Poll" | "Exit"
    redraw_requested,            \* window.request_redraw() is outstanding
    pc,                          \* position of the control thread in draw_frame
    call_log,                    \* protocol steps issued by the current frame
    last_result,                 \* VkResult of the latest device call
    current_frame,               \* VulkanApp.current_frame
    image_index,                 \* image index returned by this frame's acquire
    in_flight_fences,            \* slot -> fence is signalled
    image_available_semaphores,  \* slot -> "unsignaled" | "pending" | "signaled"
    render_finished_semaphores,  \* slot -> "unsignaled" | "signaled"
    image_state,                 \* image -> "free" | "acquired" | "queued" | "shown"
    image_rendered,              \* image -> rendering finished since last acquire
    gfx_queue,                   \* submissions not yet completed, submission order
    present_queue,               \* presents not yet executed, in order
    live,                        \* Vulkan objects created and not destroyed
    teardown_log,                \* device calls made by the LoopDestroyed handler
    sync_objects,                \* SyncObjects returned by create_sync_objects
    fn_pc,                       \* position in the initialization function under study
    swapchain_support,           \* SwapChainSupportDetail returned by query
    surface_format,              \* create_swapchain: result of choose_format
    present_mode,                \* create_swapchain: result of choose_present_mode
    swapchain_extent,            \* create_swapchain: result of choose_extent
    image_count,                 \* create_swapchain: requested min_image_count
    swapchain_images,            \* SwapchainInfo.swapchain_images
    swapchain_imageviews,        \* SwapchainInfo.swapchain_imageviews
    swapchain_framebuffers,      \* VulkanApp.swapchain_framebuffers
    recorded_command_buffers,    \* VulkanApp.command_buffers as recorded
    physical_devices,            \* result of enumerate_physical_devices
    physical_device,             \* result of pick_physical_device
    candidate,                   \* the physical device under examination
    is_suitable,                 \* result of is_physical_device_suitable
    queue_family_indices,        \* QueueFamilyIndices of find_queue_family
    queue_create_infos,          \* DeviceCreateInfo.queue_create_infos
    shader_modules,              \* create_gfx_pipeline: module -> its state
    pipeline_log,                \* create_gfx_pipeline: device calls made
    memory_request,              \* find_memory_type: its arguments
    memory_type                  \* find_memory_type: its result

vars == <<phase, control_flow, redraw_requested, pc, call_log, last_result,
          current_frame, image_index, in_flight_fences,
          image_available_semaphores, render_finished_semaphores,
          image_state, image_rendered, gfx_queue, present_queue, live,
          teardown_log, sync_objects, fn_pc, swapchain_support, surface_format,
          present_mode, swapchain_extent, image_count, swapchain_images,
          swapchain_imageviews, swapchain_framebuffers,
          recorded_command_buffers, physical_devices, physical_device,
          candidate, is_suitable, queue_family_indices, queue_create_infos,
          shader_modules, pipeline_log, memory_request, memory_type>>

appVars == <<phase, control_flow, redraw_requested, pc, call_log, last_result,
             current_frame, image_index, live, teardown_log>>

\* What VulkanApp::initialize computed before the event loop started; the
\* frame loop reads it and never writes it.
swapVars == <<swapchain_support, surface_format, present_mode,
              swapchain_extent, image_count>>
resourceVars == <<swapchain_images, swapchain_imageviews,
                  swapchain_framebuffers, recorded_command_buffers>>
pickVars == <<physical_devices, physical_device>>
logicalVars == <<candidate, is_suitable, queue_family_indices,
                 queue_create_infos>>
pipelineVars == <<shader_modules, pipeline_log>>
memoryVars == <<memory_request, memory_type>>
setupVars == <<logicalVars, pipelineVars, memoryVars>>
initVars == <<sync_objects, fn_pc, swapVars, resourceVars, pickVars,
              setupVars>>

\* ---------------------------------------------------------------- helpers

Last(s) == s[Len(s)]

IsPrefix(s, t) == Len(s) <= Len(t) /\ \A k \in 1 .. Len(s) : s[k] = t[k]

\* Value of a variable of an initialization function that has not run.
NotRun == "none"

\* create_sync_objects: MAX_FRAMES_IN_FLIGHT rounds of create_semaphore,
\* create_semaphore, create_fence(SIGNALED), each pushed on its own vector.
\* The device hands out a fresh handle per create call, counted from next.
EmptySyncObjects ==
    [image_available_semaphores |-> <<>>,
     render_finished_semaphores |-> <<>>,
     inflight_fences |-> <<>>]

RECURSIVE SyncObjectsLoopShared(_, _, _)
SyncObjectsLoopShared(round, next, so) ==
    IF round = MAX_FRAMES_IN_FLIGHT THEN so
    ELSE LET image_available_semaphore == [kind |-> "semaphore", handle |-> next]
             inflight_fence ==
                 [kind |-> "fence", handle |-> next + 2, flags |-> "SIGNALED"]
         IN  SyncObjectsLoopShared(round + 1, next + 3,
                [image_available_semaphores |->
                     Append(so.image_available_semaphores,
                            image_available_semaphore),
                 render_finished_semaphores |->
                     Append(so.render_finished_semaphores,
                            image_available_semaphore),
                 inflight_fences |-> Append(so.inflight_fences, inflight_fence)])

RECURSIVE SyncObjectsLoop(_, _, _)
SyncObjectsLoop(round, next, so) ==
    IF round = MAX_FRAMES_IN_FLIGHT THEN so
    ELSE LET image_available_semaphore == [kind |-> "semaphore", handle |-> next]
             render_finished_semaphore ==
                 [kind |-> "semaphore", handle |-> next + 1]
             inflight_fence ==
                 [kind |-> "fence", handle |-> next + 2, flags |-> "SIGNALED"]
         IN  SyncObjectsLoop(round + 1, next + 3,
                [image_available_semaphores |->
                     Append(so.image_available_semaphores,
                            image_available_semaphore),
                 render_finished_semaphores |->
                     Append(so.render_finished_semaphores,
                            render_finished_semaphore),
                 inflight_fences |-> Append(so.inflight_fences, inflight_fence)])

create_sync_objects_shared(next) == SyncObjectsLoopShared(0, next, EmptySyncObjects)
\* Fences created without FenceCreateFlags::SIGNALED.
create_sync_objects_unsignaled(next) ==
    [SyncObjectsLoop(0, next, EmptySyncObjects) EXCEPT
        !.inflight_fences =
            [k \in DOMAIN @ |-> [@[k] EXCEPT !.flags = "EMPTY"]]]
create_sync_objects(next) == SyncObjectsLoop(0, next, EmptySyncObjects)

\* State of the fences and semaphores that create_sync_objects made: a fence
\* created with FenceCreateFlags::SIGNALED starts signalled, a semaphore
\* starts unsignalled; slot s is element s of each vector.
InitFences ==
    [s \in Slots |->
       create_sync_objects(1).inflight_fences[s + 1].flags = "SIGNALED"]
InitSemaphores == [s \in Slots |-> "unsignaled"]

\* create_command_buffers allocates framebuffers.len() command buffers and
\* create_framebuffers one framebuffer per image view: command buffer i
\* renders into swapchain image i.
command_buffers == Images

\* draw_frame builds the SubmitInfo with .command_buffers(&self.command_buffers):
\* the whole vector, whatever image index the acquire returned.
SubmittedCommandBuffers(idx) == command_buffers

\* wait_for_fences(&[fence], true, u64::MAX) returns Ok only once the fence
\* is signalled.
FenceWaitReturnsUnblocked(s) == TRUE
FenceWaitReturns(s) == in_flight_fences[s]

\* Control flow of draw_frame: the order in which it issues its steps.
NextStepResetFirst(p) ==
    CASE p = "wait" -> "reset"
      [] p = "reset" -> "acquire"
      [] p = "acquire" -> "submit"
      [] p = "submit" -> "present"
      [] p = "present" -> "advance"
      [] OTHER -> "idle"
NextStep(p) ==
    CASE p = "wait" -> "acquire"
      [] p = "acquire" -> "reset"
      [] p = "reset" -> "submit"
      [] p = "submit" -> "present"
      [] p = "present" -> "advance"
      [] OTHER -> "idle"

\* self.current_frame = (self.current_frame + 1) % MAX_FRAMES_IN_FLIGHT
AdvanceFrameStuck(cf) == cf
AdvanceFrame(cf) == (cf + 1) % MAX_FRAMES_IN_FLIGHT

\* create_image_view: a 2D colour view of one image, one mip level, one layer.
create_image_view(image) ==
    [image |-> image, view_type |-> "TYPE_2D", aspect_mask |-> "COLOR",
     level_count |-> 1, layer_count |-> 1]

\* create_image_views: images.iter().map(create_image_view).collect()
create_image_views(images) ==
    [k \in 1 .. Len(images) |-> create_image_view(images[k])]

\* create_framebuffers: for each image view, in order, push a framebuffer
\* whose only attachment is that view.
RECURSIVE FramebuffersLoop(_, _, _)
FramebuffersLoop(image_views, k, framebuffers) ==
    IF k > Len(image_views) THEN framebuffers
    ELSE FramebuffersLoop(image_views, k + 1,
            Append(framebuffers,
                   [attachments |-> <<image_views[k]>>, layers |-> 1]))

create_framebuffers(image_views) == FramebuffersLoop(image_views, 1, <<>>)

\* The commands create_command_buffers records into the buffer of one
\* framebuffer (app.rs:248-277).
RecordedCommands(framebuffer) ==
    <<[op |-> "begin_command_buffer", flags |-> "SIMULTANEOUS_USE"],
      [op |-> "cmd_begin_render_pass", framebuffer |-> framebuffer,
       clear_values |-> <<<<0, 0, 0, 1>>>>],
      [op |-> "cmd_bind_pipeline", bind_point |-> "GRAPHICS"],
      [op |-> "cmd_draw", vertex_count |-> 3, instance_count |-> 1],
      [op |-> "cmd_end_render_pass"],
      [op |-> "end_command_buffer"]>>

\* create_command_buffers: allocate framebuffers.len() primary buffers, then
\* for (i, buffer) record the render pass on framebuffers[i].
create_command_buffers_first(framebuffers) ==
    [k \in 1 .. Len(framebuffers) |->
       [handle |-> k, level |-> "PRIMARY",
        commands |-> RecordedCommands(framebuffers[1])]]
create_command_buffers(framebuffers) ==
    [k \in 1 .. Len(framebuffers) |->
       [handle |-> k, level |-> "PRIMARY",
        commands |-> RecordedCommands(framebuffers[k])]]

\* ---------------------------------------------------------------- init

\* State after VulkanApp::initialize: every object created, nothing
\* submitted, current_frame: 0.  FrameInit is the part the frame loop works
\* on; the results of the initialization functions are studied one function
\* at a time by the specifications further down and are NotRun elsewhere.
FrameInit ==
    /\ phase = "running"
    /\ control_flow = "Poll"
    /\ redraw_requested = FALSE
    /\ pc = "idle"
    /\ call_log = <<>>
    /\ last_result = "SUCCESS"
    /\ current_frame = 0
    /\ image_index = NoImage
    /\ in_flight_fences = InitFences
    /\ image_available_semaphores = InitSemaphores
    /\ render_finished_semaphores = InitSemaphores
    /\ image_state = [i \in Images |-> "free"]
    /\ image_rendered = [i \in Images |-> FALSE]
    /\ gfx_queue = <<>>
    /\ present_queue = <<>>
    /\ live = AllObjects
    /\ teardown_log = <<>>

SwapNotRun ==
    /\ swapchain_support = NotRun
    /\ surface_format = NotRun
    /\ present_mode = NotRun
    /\ swapchain_extent = NotRun
    /\ image_count = NotRun

ResourcesNotRun ==
    /\ swapchain_images = NotRun
    /\ swapchain_imageviews = NotRun
    /\ swapchain_framebuffers = NotRun
    /\ recorded_command_buffers = NotRun

PickNotRun ==
    /\ physical_devices = NotRun
    /\ physical_device = NotRun

LogicalNotRun ==
    /\ candidate = NotRun
    /\ is_suitable = NotRun
    /\ queue_family_indices = NotRun
    /\ queue_create_infos = NotRun

PipelineNotRun ==
    /\ shader_modules = NotRun
    /\ pipeline_log = NotRun

MemoryNotRun ==
    /\ memory_request = NotRun
    /\ memory_type = NotRun

SetupNotRun ==
    /\ LogicalNotRun
    /\ PipelineNotRun
    /\ MemoryNotRun

\* The frame loop has not drawn anything yet.
LoopNotStarted ==
    /\ FrameInit
    /\ sync_objects = create_sync_objects(1)

\* The frame resources as VulkanApp::initialize built them for a swapchain
\* of NumImages images.
ResourcesBuilt ==
    /\ swapchain_images = [i \in 1 .. NumImages |-> i]
    /\ swapchain_imageviews = create_image_views(swapchain_images)
    /\ swapchain_framebuffers = create_framebuffers(swapchain_imageviews)
    /\ recorded_command_buffers = create_command_buffers(swapchain_framebuffers)

Init ==
    /\ LoopNotStarted
    /\ fn_pc = "done"
    /\ SwapNotRun
    /\ ResourcesBuilt
    /\ PickNotRun
    /\ SetupNotRun

\* ---------------------------------------------------------------- event loop

deviceVars == <<in_flight_fences, image_available_semaphores,
                render_finished_semaphores, image_state, image_rendered,
                gfx_queue, present_queue>>

\* WindowEvent::CloseRequested => *control_flow = ControlFlow::Exit
CloseRequested ==
    /\ UNCHANGED initVars
    /\ phase = "running" /\ pc = "idle"
    /\ control_flow = "Poll"
    /\ control_flow' = "Exit"
    /\ UNCHANGED <<phase, redraw_requested, pc, call_log, last_result,
                   current_frame, image_index, live, teardown_log>>
    /\ UNCHANGED deviceVars

\* Event::MainEventsCleared => self.window.request_redraw()
MainEventsCleared ==
    /\ UNCHANGED initVars
    /\ phase = "running" /\ pc = "idle"
    /\ ~redraw_requested
    /\ redraw_requested' = TRUE
    /\ UNCHANGED <<phase, control_flow, pc, call_log, last_result,
                   current_frame, image_index, live, teardown_log>>
    /\ UNCHANGED deviceVars

\* Event::RedrawRequested => self.draw_frame(): the control thread enters
\* draw_frame; its device calls are the steps below.
RedrawRequested ==
    /\ UNCHANGED initVars
    /\ phase = "running" /\ pc = "idle"
    /\ redraw_requested
    /\ redraw_requested' = FALSE
    /\ pc' = "wait"
    /\ call_log' = <<>>
    /\ UNCHANGED <<phase, control_flow, last_result, current_frame,
                   image_index, live, teardown_log>>
    /\ UNCHANGED deviceVars

\* Event::LoopDestroyed => self.device.device_wait_idle(): the call is issued
\* once the loop stops after ControlFlow::Exit.
LoopDestroyed ==
    /\ UNCHANGED initVars
    /\ phase = "running" /\ pc = "idle"
    /\ control_flow = "Exit"
    /\ phase' = "idle_wait"
    /\ teardown_log' = Append(teardown_log, "device_wait_idle")
    /\ UNCHANGED <<control_flow, redraw_requested, pc, call_log, last_result,
                   current_frame, image_index, live>>
    /\ UNCHANGED deviceVars

\* device_wait_idle blocks until the device has finished the work submitted
\* to its queues.
DeviceIdleAtOnce == TRUE
DeviceIdle == gfx_queue = <<>>

\* device_wait_idle returns: Ok once the graphics queue has drained, after
\* which the handler ends and the process exits with nothing destroyed
\* (VulkanApp has no Drop); Err makes .expect panic.

DeviceWaitIdleReturns ==
    /\ UNCHANGED initVars
    /\ phase = "idle_wait"
    /\ \E r \in PlainResults :
        /\ r = "SUCCESS" => DeviceIdle
        /\ last_result' = r
        /\ phase' = IF r = "SUCCESS" THEN "exited" ELSE "panicked"
    /\ UNCHANGED <<control_flow, redraw_requested, pc, call_log,
                   current_frame, image_index, live, teardown_log>>
    /\ UNCHANGED deviceVars

\* ---------------------------------------------------------------- draw_frame

\* Common tail of every device call of draw_frame: the call is logged, its
\* result recorded; Ok moves on to the next step, Err makes .expect panic.
ReturnsUnchecked(call, r) ==
    /\ call_log' = Append(call_log, call)
    /\ last_result' = r
    /\ pc' = NextStep(pc) /\ phase' = phase

Returns(call, r) ==
    /\ call_log' = Append(call_log, call)
    /\ last_result' = r
    /\ IF r \in OkResults
       THEN pc' = NextStep(pc) /\ phase' = phase
       ELSE pc' = pc /\ phase' = "panicked"

\* self.device.wait_for_fences(&wait_fences, true, u64::MAX).expect(..)
WaitForFences ==
    /\ UNCHANGED initVars
    /\ phase = "running" /\ pc = "wait"
    /\ \E r \in PlainResults :
        /\ r = "SUCCESS" => FenceWaitReturns(current_frame)
        /\ Returns("wait_for_fences", r)
    /\ UNCHANGED <<control_flow, redraw_requested, current_frame, image_index,
                   live, teardown_log>>
    /\ UNCHANGED deviceVars

\* swapchain_loader.acquire_next_image(swapchain, u64::MAX,
\*     image_available_semaphores[current_frame], Fence::null()).expect(..)
\* Ok((index, suboptimal)) hands an image of the presentation engine to the
\* application and queues a signal of the slot's semaphore; Err panics.
AcquireNextImage ==
    /\ UNCHANGED initVars
    /\ phase = "running" /\ pc = "acquire"
    /\ \E r \in SwapchainResults :
        /\ Returns("acquire_next_image", r)
        /\ IF r \in OkResults
           THEN \E i \in Images :
                  /\ image_state[i] \in {"free", "shown"}
                  /\ image_index' = i
                  /\ image_state' = [image_state EXCEPT ![i] = "acquired"]
                  /\ image_rendered' = [image_rendered EXCEPT ![i] = FALSE]
                  /\ image_available_semaphores' =
                       [image_available_semaphores EXCEPT
                          ![current_frame] = "pending"]
           ELSE UNCHANGED <<image_index, image_state, image_rendered,
                            image_available_semaphores>>
    /\ UNCHANGED <<control_flow, redraw_requested, current_frame, live,
                   teardown_log, in_flight_fences, render_finished_semaphores,
                   gfx_queue, present_queue>>

\* self.device.reset_fences(&wait_fences).expect(..)
ResetFences ==
    /\ UNCHANGED initVars
    /\ phase = "running" /\ pc = "reset"
    /\ \E r \in PlainResults :
        /\ Returns("reset_fences", r)
        /\ in_flight_fences' =
             IF r = "SUCCESS"
             THEN [in_flight_fences EXCEPT ![current_frame] = FALSE]
             ELSE in_flight_fences
    /\ UNCHANGED <<control_flow, redraw_requested, current_frame, image_index,
                   live, teardown_log, image_available_semaphores,
                   render_finished_semaphores, image_state, image_rendered,
                   gfx_queue, present_queue>>

\* self.device.queue_submit(graphics_queue, &submit_infos,
\*     in_flight_fences[current_frame]).expect(..)
\* One batch: waits image_available[current_frame] at COLOR_ATTACHMENT_OUTPUT,
\* runs the command buffers of the SubmitInfo, signals
\* render_finished[current_frame] and the slot's fence.
QueueSubmit ==
    /\ UNCHANGED initVars
    /\ phase = "running" /\ pc = "submit"
    /\ \E r \in PlainResults :
        /\ Returns("queue_submit", r)
        /\ gfx_queue' =
             IF r = "SUCCESS"
             THEN Append(gfx_queue,
                         [slot |-> current_frame,
                          image |-> image_index,
                          cbs |-> SubmittedCommandBuffers(image_index),
                          started |-> FALSE])
             ELSE gfx_queue
    /\ UNCHANGED <<control_flow, redraw_requested, current_frame, image_index,
                   live, teardown_log, in_flight_fences,
                   image_available_semaphores, render_finished_semaphores,
                   image_state, image_rendered, present_queue>>

\* The bool of Ok(suboptimal) is dropped by the .expect(..) statement:
\* whatever queue_present returned, the command buffers stay as recorded.
CommandBuffersAfterPresentRerecorded(r, buffers) ==
    IF r = "SUBOPTIMAL"
    THEN [k \in DOMAIN buffers |->
            [buffers[k] EXCEPT !.handle = @ + Len(buffers)]]
    ELSE buffers
CommandBuffersAfterPresent(r, buffers) == buffers

\* swapchain_loader.queue_present(present_queue, &present_info).expect(..)
\* Ok(suboptimal) queues the presentation of image_index behind a wait on
\* render_finished[current_frame]; Err (OUT_OF_DATE included) panics.
QueuePresent ==
    /\ UNCHANGED <<sync_objects, fn_pc, swapVars, swapchain_images,
                   swapchain_imageviews, swapchain_framebuffers, pickVars,
                   setupVars>>
    /\ phase = "running" /\ pc = "present"
    /\ \E r \in SwapchainResults :
        /\ Returns("queue_present", r)
        /\ recorded_command_buffers' =
             CommandBuffersAfterPresent(r, recorded_command_buffers)
        /\ IF r \in OkResults
           THEN /\ present_queue' =
                     Append(present_queue,
                            [slot |-> current_frame, image |-> image_index])
                /\ image_state' = [image_state EXCEPT ![image_index] = "queued"]
           ELSE UNCHANGED <<present_queue, image_state>>
    /\ UNCHANGED <<control_flow, redraw_requested, current_frame, image_index,
                   live, teardown_log, in_flight_fences,
                   image_available_semaphores, render_finished_semaphores,
                   image_rendered, gfx_queue>>

\* self.current_frame = (self.current_frame + 1) % MAX_FRAMES_IN_FLIGHT;
\* draw_frame returns to the event loop.
AdvanceCounter ==
    /\ UNCHANGED initVars
    /\ phase = "running" /\ pc = "advance"
    /\ current_frame' = AdvanceFrame(current_frame)
    /\ call_log' = Append(call_log, "advance")
    /\ pc' = NextStep(pc)
    /\ image_index' = NoImage
    /\ UNCHANGED <<phase, control_flow, redraw_requested, last_result, live,
                   teardown_log>>
    /\ UNCHANGED deviceVars

\* ---------------------------------------------------------------- device side

DeviceActive == phase \in {"running", "idle_wait"}

\* The presentation engine releases the acquired image: the semaphore signal
\* queued by acquire_next_image happens.
SignalImageAvailable(s) ==
    /\ UNCHANGED initVars
    /\ DeviceActive
    /\ image_available_semaphores[s] = "pending"
    /\ image_available_semaphores' =
         [image_available_semaphores EXCEPT ![s] = "signaled"]
    /\ UNCHANGED appVars
    /\ UNCHANGED <<in_flight_fences, render_finished_semaphores, image_state,
                   image_rendered, gfx_queue, present_queue>>

\* The graphics queue starts colour output of batch k: its semaphore wait on
\* image_available[slot] is satisfied and consumes the signal.
GpuBegin(k) ==
    /\ UNCHANGED initVars
    /\ DeviceActive
    /\ k \in 1 .. Len(gfx_queue)
    /\ ~gfx_queue[k].started
    /\ image_available_semaphores[gfx_queue[k].slot] = "signaled"
    /\ image_available_semaphores' =
         [image_available_semaphores EXCEPT ![gfx_queue[k].slot] = "unsignaled"]
    /\ gfx_queue' = [gfx_queue EXCEPT ![k].started = TRUE]
    /\ UNCHANGED appVars
    /\ UNCHANGED <<in_flight_fences, render_finished_semaphores, image_state,
                   image_rendered, present_queue>>

\* The oldest batch completes (fence and semaphore signals include everything
\* earlier in submission order): every image its command buffers target has
\* been rendered, render_finished[slot] and the slot's fence are signalled.
GpuComplete ==
    /\ UNCHANGED initVars
    /\ DeviceActive
    /\ gfx_queue # <<>>
    /\ gfx_queue[1].started
    /\ in_flight_fences' = [in_flight_fences EXCEPT ![gfx_queue[1].slot] = TRUE]
    /\ render_finished_semaphores' =
         [render_finished_semaphores EXCEPT ![gfx_queue[1].slot] = "signaled"]
    /\ image_rendered' =
         [i \in Images |-> image_rendered[i] \/ i \in gfx_queue[1].cbs]
    /\ gfx_queue' = Tail(gfx_queue)
    /\ UNCHANGED appVars
    /\ UNCHANGED <<image_available_semaphores, image_state, present_queue>>

\* The presentation engine executes the oldest present: its wait on
\* render_finished[slot] is satisfied and consumes the signal, the image is
\* shown and becomes available to acquire again.
PresentImage ==
    /\ UNCHANGED initVars
    /\ DeviceActive
    /\ present_queue # <<>>
    /\ render_finished_semaphores[present_queue[1].slot] = "signaled"
    /\ render_finished_semaphores' =
         [render_finished_semaphores EXCEPT
            ![present_queue[1].slot] = "unsignaled"]
    /\ image_state' = [image_state EXCEPT ![present_queue[1].image] = "shown"]
    /\ present_queue' = Tail(present_queue)
    /\ UNCHANGED appVars
    /\ UNCHANGED <<in_flight_fences, image_available_semaphores,
                   image_rendered, gfx_queue>>

\* ---------------------------------------------------------------- specification

Next ==
    \/ CloseRequested
    \/ MainEventsCleared
    \/ RedrawRequested
    \/ LoopDestroyed
    \/ DeviceWaitIdleReturns
    \/ WaitForFences
    \/ AcquireNextImage
    \/ ResetFences
    \/ QueueSubmit
    \/ QueuePresent
    \/ AdvanceCounter
    \/ \E s \in Slots : SignalImageAvailable(s)
    \/ \E k \in DOMAIN gfx_queue : GpuBegin(k)
    \/ GpuComplete
    \/ PresentImage

Spec == Init /\ [][Next]_vars

TypeOK ==
    /\ phase \in {"running", "idle_wait", "exited", "panicked"}
    /\ control_flow \in {"Poll", "Exit"}
    /\ redraw_requested \in BOOLEAN
    /\ pc \in {"idle", "wait", "acquire", "reset", "submit", "present", "advance"}
    /\ current_frame \in Slots
    /\ image_index \in Images \cup {NoImage}
    /\ in_flight_fences \in [Slots -> BOOLEAN]
    /\ image_available_semaphores \in
         [Slots -> {"unsignaled", "pending", "signaled"}]
    /\ render_finished_semaphores \in [Slots -> {"unsignaled", "signaled"}]
    /\ image_state \in [Images -> {"free", "acquired", "queued", "shown"}]
    /\ image_rendered \in [Images -> BOOLEAN]
    /\ live \subseteq AllObjects

\* ---------------------------------------------------------------- properties

\* The six protocol steps of one frame, in the order the spec gives them.
FrameProtocol ==
    <<"wait_for_fences", "acquire_next_image", "reset_fences", "queue_submit",
      "queue_present", "advance">>

PendingOnSlot(s) == \E k \in 1 .. Len(gfx_queue) : gfx_queue[k].slot = s

\* C1: while a frame is at its acquire, fence reset or queue submit, the wait
\* on the slot's fence was the first call of the frame and no earlier submit
\* of the same slot is still unfinished on the GPU; at the acquire the fence
\* is signalled.
C1_FenceWaitBeforeSlotReuse ==
    pc \in {"acquire", "reset", "submit"} =>
        /\ call_log # <<>> /\ call_log[1] = "wait_for_fences"
        /\ ~PendingOnSlot(current_frame)
        /\ (pc = "acquire" => in_flight_fences[current_frame])

\* A third frame reuses slot 0 after frames on slots 0 and 1: it is about to
\* submit while the frame of slot 1 is still in flight.
C1_Witness ==
    /\ phase = "running" /\ pc = "submit" /\ current_frame = 0
    /\ Len(gfx_queue) = 1 /\ gfx_queue[1].slot = 1
    /\ \E i \in Images : image_state[i] = "shown"

\* C2: every submit holds exactly one command buffer, the one of the image
\* index this frame's acquire returned.
C2_SubmitsAcquiredImageOnly ==
    \A k \in 1 .. Len(gfx_queue) : gfx_queue[k].cbs = {gfx_queue[k].image}

\* C3: a queue_present that reports OUT_OF_DATE or SUBOPTIMAL does not
\* terminate the renderer; it goes on to rebuild the swapchain-derived state.
C3_StalePresentRebuilds ==
    (/\ call_log # <<>>
     /\ Last(call_log) = "queue_present"
     /\ last_result \in StaleResults)
        => (phase = "running" /\ pc = "recreate")

\* C4: an acquire_next_image that reports OUT_OF_DATE or SUBOPTIMAL puts the
\* frame loop in the Recreating state; the process neither terminates nor
\* carries on with the frame.
C4_StaleAcquireRecreates ==
    (/\ call_log # <<>>
     /\ Last(call_log) = "acquire_next_image"
     /\ last_result \in StaleResults)
        => (phase = "running" /\ pc = "recreate")

\* C5: at most MAX_FRAMES_IN_FLIGHT = 2 submitted frames have a fence that
\* has not signalled yet.
C5_AtMostTwoInFlight == Len(gfx_queue) <= 2

\* Two frames are in flight and the control thread is blocked on the fence of
\* the slot it wants to reuse.
C5_Witness ==
    /\ Len(gfx_queue) = 2
    /\ phase = "running" /\ pc = "wait"
    /\ ~in_flight_fences[current_frame]

\* C6: current_frame starts at 0, stays in {0, 1}, changes only at the end of
\* a frame whose queue_present succeeded, and then to (current_frame + 1) mod 2;
\* every frame that returns advances it.
C6_FrameCounterCycles ==
    /\ current_frame = 0
    /\ [](current_frame \in {0, 1})
    /\ [][/\ (current_frame' # current_frame) =>
               /\ call_log = SubSeq(FrameProtocol, 1, 5)
               /\ last_result \in OkResults
               /\ current_frame' = (current_frame + 1) % 2
          /\ (pc = "advance" /\ pc' = "idle") =>
               current_frame' # current_frame]_vars

\* The counter wrapped around: the frame on slot 1 has just returned (still in
\* flight) and the next frame will use slot 0 again.
C6_Witness ==
    /\ pc = "idle" /\ current_frame = 0
    /\ call_log = FrameProtocol
    /\ PendingOnSlot(1)

\* C7: the GPU writes colour output only to images the application has
\* acquired (never to one the presentation engine owns), and an image that
\* was shown had its rendering completed first.
C7_SemaphoreChain ==
    /\ \A k \in 1 .. Len(gfx_queue) :
         gfx_queue[k].started =>
            \A i \in gfx_queue[k].cbs : image_state[i] \in {"acquired", "queued"}
    /\ \A i \in Images : image_state[i] = "shown" => image_rendered[i]

\* C8: the steps of a frame are issued in the order wait-for-fence,
\* acquire-image, reset-fence, queue-submit, queue-present, advance-counter;
\* the reset follows a successful acquire, and a frame that returns has
\* issued all six.
C8_FrameStepOrder ==
    /\ IsPrefix(call_log, FrameProtocol)
    /\ (Len(call_log) \in 3 .. 5) => image_index \in Images
    /\ (pc = "idle" => call_log \in {<<>>, FrameProtocol})
    /\ (pc = "submit" /\ phase = "running") =>
          (Last(call_log) = "reset_fences" /\ ~in_flight_fences[current_frame])

\* A frame went through all six steps.
C8_Witness ==
    /\ call_log = FrameProtocol
    /\ pc = "idle"
    /\ present_queue # <<>>

\* C9: when the renderer has shut down, the device-idle wait came first, every
\* swapchain-derived object was released after it, and semaphores and fences
\* were released after all per-frame resources.
C9_TeardownOrder ==
    phase = "exited" =>
        /\ teardown_log # <<>> /\ teardown_log[1] = "device_wait_idle"
        /\ live \cap (SwapchainDerived \cup SyncObjectNames) = {}
        /\ \A j, k \in 1 .. Len(teardown_log) :
             (/\ teardown_log[j] \in SyncObjectNames
              /\ teardown_log[k] \in SwapchainDerived \cup {"command_pool"})
                => k < j

\* C10: when the run has terminated, the logical device has been destroyed,
\* once, and nothing created from it is still alive.
C10_DeviceDestroyedLast ==
    phase = "exited" =>
        /\ "device" \notin live
        /\ live \cap DeviceChildren = {}
        /\ Cardinality({k \in 1 .. Len(teardown_log) :
                          teardown_log[k] = "device"}) = 1

\* C11: the event loop exits only after a close request and after
\* device_wait_idle returned Ok with no work left on the graphics queue; once
\* the idle wait is issued the control thread is never inside draw_frame and
\* no submit or present is added.
C11_ExitAfterIdleWait ==
    /\ [](/\ phase = "exited" =>
               /\ control_flow = "Exit"
               /\ teardown_log = <<"device_wait_idle">>
               /\ last_result = "SUCCESS"
               /\ gfx_queue = <<>>
          /\ teardown_log # <<>> => pc = "idle")
    /\ [][teardown_log # <<>> =>
            /\ pc' = "idle"
            /\ call_log' = call_log
            /\ Len(gfx_queue') <= Len(gfx_queue)
            /\ Len(present_queue') <= Len(present_queue)]_vars

\* The loop exited after drawing frames; the last present is still queued.
C11_Witness ==
    /\ phase = "exited"
    /\ call_log = FrameProtocol
    /\ present_queue # <<>>

SyncHandles ==
    {sync_objects.image_available_semaphores[k].handle : k \in 1 .. 2}
      \cup {sync_objects.render_finished_semaphores[k].handle : k \in 1 .. 2}
      \cup {sync_objects.inflight_fences[k].handle : k \in 1 .. 2}

\* C12: create_sync_objects yields 2 slots, each with its own image-available
\* semaphore, render-finished semaphore and fence (six distinct objects), the
\* fences created signalled; no frame and no later step replaces them.
C12_SyncObjectsCreatedOnce ==
    /\ in_flight_fences = [s \in {0, 1} |-> TRUE]
    /\ [](/\ Len(sync_objects.image_available_semaphores) = 2
          /\ Len(sync_objects.render_finished_semaphores) = 2
          /\ Len(sync_objects.inflight_fences) = 2
          /\ Cardinality(SyncHandles) = 6
          /\ \A k \in 1 .. 2 :
               /\ sync_objects.inflight_fences[k].flags = "SIGNALED"
               /\ sync_objects.inflight_fences[k].kind = "fence"
               /\ sync_objects.image_available_semaphores[k].kind = "semaphore"
               /\ sync_objects.render_finished_semaphores[k].kind = "semaphore"
          /\ DOMAIN in_flight_fences = {0, 1}
          /\ DOMAIN image_available_semaphores = {0, 1}
          /\ DOMAIN render_finished_semaphores = {0, 1})
    /\ [][sync_objects' = sync_objects]_vars

\* Both slots were used by frames and the renderer shut down with the sync
\* objects it started with.
C12_Witness ==
    /\ phase = "exited"
    /\ current_frame = 0
    /\ \E i, j \in Images : i # j /\ image_state[i] = "shown" /\ image_state[j] = "shown"
    /\ Cardinality(SyncHandles) = 6

\* C14: a device call of draw_frame that fails with anything but OUT_OF_DATE
\* or SUBOPTIMAL terminates the process in that step without advancing
\* current_frame, and a terminated process takes no further step.
C14_ErrorsAreFatal ==
    /\ [][(/\ phase = "running"
           /\ call_log' # call_log
           /\ pc # "idle"
           /\ last_result' = "ERROR")
            => (/\ phase' = "panicked"
                /\ current_frame' = current_frame
                /\ pc' = pc)]_vars
    /\ [][phase # "panicked"]_vars

\* queue_present of the second frame failed and the process is gone.
C14_Witness ==
    /\ phase = "panicked"
    /\ last_result = "ERROR"
    /\ call_log # <<>>
    /\ Last(call_log) = "queue_present"
    /\ current_frame = 1

\* ---------------------------------------------------------------- frame resources
\* VulkanApp::initialize, from the swapchain images to the recorded command
\* buffers: create_image_views, create_framebuffers, create_command_buffers.

\* Image handles are drawn from 1 .. MaxHandle; a swapchain has between 1
\* and MaxSwapImages images.
MaxHandle == 4
MaxSwapImages == 3

\* get_swapchain_images: the images of the swapchain, distinct handles in
\* the order the driver reports them.
SwapchainImageLists ==
    UNION {{imgs \in [1 .. n -> 1 .. MaxHandle] :
               \A i, j \in 1 .. n : i # j => imgs[i] # imgs[j]} :
           n \in 1 .. MaxSwapImages}

InitResources ==
    /\ LoopNotStarted
    /\ SwapNotRun
    /\ PickNotRun
    /\ SetupNotRun
    /\ fn_pc = "create_image_views"
    /\ swapchain_images \in SwapchainImageLists
    /\ swapchain_imageviews = NotRun
    /\ swapchain_framebuffers = NotRun
    /\ recorded_command_buffers = NotRun

otherThanResources ==
    <<appVars, deviceVars, sync_objects, swapVars, pickVars, setupVars>>

\* create_swapchain: let swapchain_imageviews = create_image_views(..)
CreateImageViews ==
    /\ fn_pc = "create_image_views"
    /\ swapchain_imageviews' = create_image_views(swapchain_images)
    /\ fn_pc' = "create_framebuffers"
    /\ UNCHANGED <<swapchain_images, swapchain_framebuffers,
                   recorded_command_buffers>>
    /\ UNCHANGED otherThanResources

\* initialize: let swapchain_framebuffers = create_framebuffers(..)
CreateFramebuffers ==
    /\ fn_pc = "create_framebuffers"
    /\ swapchain_framebuffers' = create_framebuffers(swapchain_imageviews)
    /\ fn_pc' = "create_command_buffers"
    /\ UNCHANGED <<swapchain_images, swapchain_imageviews,
                   recorded_command_buffers>>
    /\ UNCHANGED otherThanResources

\* initialize: let command_buffers = create_command_buffers(..)
CreateCommandBuffers ==
    /\ fn_pc = "create_command_buffers"
    /\ recorded_command_buffers' = create_command_buffers(swapchain_framebuffers)
    /\ fn_pc' = "resources_done"
    /\ UNCHANGED <<swapchain_images, swapchain_imageviews,
                   swapchain_framebuffers>>
    /\ UNCHANGED otherThanResources

NextResources ==
    \/ CreateImageViews
    \/ CreateFramebuffers
    \/ CreateCommandBuffers

SpecResources == InitResources /\ [][NextResources]_vars

\* C13: once the frame resources are built, there are as many image views,
\* framebuffers and command buffers as swapchain images, and view i is a view
\* of image i, framebuffer i is attached to view i, command buffer i renders
\* into framebuffer i.
C13_ResourceCountsAgree ==
    fn_pc = "resources_done" =>
        /\ Len(swapchain_imageviews) = Len(swapchain_images)
        /\ Len(swapchain_framebuffers) = Len(swapchain_images)
        /\ Len(recorded_command_buffers) = Len(swapchain_images)
        /\ \A i \in 1 .. Len(swapchain_images) :
             /\ swapchain_imageviews[i].image = swapchain_images[i]
             /\ swapchain_framebuffers[i].attachments = <<swapchain_imageviews[i]>>
             /\ recorded_command_buffers[i].commands[2].framebuffer =
                  swapchain_framebuffers[i]
             /\ recorded_command_buffers[i].commands[2].framebuffer.attachments[1].image =
                  swapchain_images[i]

\* The resources of a swapchain with three images have been built.
C13_Witness ==
    /\ fn_pc = "resources_done"
    /\ Len(swapchain_images) = 3
    /\ Len(recorded_command_buffers) = 3

\* ---------------------------------------------------------------- swapchain parameters
\* create_swapchain up to the image count: SwapChainSupportDetail::choose_format,
\* choose_present_mode, choose_extent and the image_count arithmetic.

\* A u32 is kept as its two 16-bit halves, so that u32::MAX and the wrap of
\* u32 addition are the values the program sees.
Half == 65536

U32(n) == [hi |-> n \div Half, lo |-> n % Half]
U32_MAX == [hi |-> Half - 1, lo |-> Half - 1]
U32Lt(a, b) == a.hi < b.hi \/ (a.hi = b.hi /\ a.lo < b.lo)
U32Le(a, b) == ~U32Lt(b, a)
\* Ord::min and Ord::max on u32
U32Min(a, b) == IF U32Lt(b, a) THEN b ELSE a
U32Max(a, b) == IF U32Lt(a, b) THEN b ELSE a
\* a + 1 in u32 arithmetic that wraps (release build)
WrappingAddOne(a) ==
    IF a.lo < Half - 1 THEN [hi |-> a.hi, lo |-> a.lo + 1]
    ELSE [hi |-> (a.hi + 1) % Half, lo |-> 0]
\* b is the integer a + 1
IsSuccessor(a, b) == a # U32_MAX /\ b = WrappingAddOne(a)

\* Lists of formats hold at most MaxFormats entries, lists of present modes at
\* most MaxModes; image counts are taken within MaxCount of 0 and of u32::MAX.
MaxFormats == 3
MaxModes == 3
MaxCount == 3

PreferredFormat == [format |-> "B8G8R8A8_SRGB", color_space |-> "SRGB_NONLINEAR"]

SurfaceFormats ==
    [format : {"B8G8R8A8_SRGB", "R8G8B8A8_UNORM", "B8G8R8A8_UNORM"},
     color_space : {"SRGB_NONLINEAR", "DISPLAY_P3_NONLINEAR"}]
PresentModes == {"IMMEDIATE", "MAILBOX", "FIFO", "FIFO_RELAXED"}

FormatLists == UNION {[1 .. n -> SurfaceFormats] : n \in 1 .. MaxFormats}
PresentModeLists == UNION {[1 .. n -> PresentModes] : n \in 0 .. MaxModes}

CountSamples ==
    {U32(n) : n \in 0 .. MaxCount}
      \cup {[hi |-> Half - 1, lo |-> Half - 1 - n] : n \in 0 .. MaxCount}

\* The window is created 1280 x 720 (run_app) and choose_extent hard-codes
\* the same size.
WindowWidth == 1280
WindowHeight == 720

ExtentSamples == {U32(1), U32(720), U32(1280), U32(4096)}
Extents == [width : ExtentSamples, height : ExtentSamples]
UndefinedExtent == [width |-> U32_MAX, height |-> U32_MAX]
\* minImageExtent <= maxImageExtent in both dimensions, as the surface
\* reports them.
ExtentBounds ==
    {b \in [min_image_extent : Extents, max_image_extent : Extents] :
        /\ U32Le(b.min_image_extent.width, b.max_image_extent.width)
        /\ U32Le(b.min_image_extent.height, b.max_image_extent.height)}

DefaultCapabilities ==
    [min_image_count |-> U32(2), max_image_count |-> U32(8),
     current_extent |-> [width |-> U32(1280), height |-> U32(720)],
     min_image_extent |-> [width |-> U32(1), height |-> U32(1)],
     max_image_extent |-> [width |-> U32(4096), height |-> U32(4096)]]
DefaultFormats == <<PreferredFormat>>
DefaultPresentModes == <<"FIFO">>

\* SwapChainSupportDetail::query results the model runs create_swapchain on:
\* each family varies one of the queried values over its whole bounded set.
SupportDetails ==
    {[capabilities |-> DefaultCapabilities, formats |-> f,
      present_modes |-> DefaultPresentModes] : f \in FormatLists}
    \cup
    {[capabilities |-> DefaultCapabilities, formats |-> DefaultFormats,
      present_modes |-> m] : m \in PresentModeLists}
    \cup
    {[capabilities |->
        [DefaultCapabilities EXCEPT !.current_extent = c,
                                    !.min_image_extent = b.min_image_extent,
                                    !.max_image_extent = b.max_image_extent],
      formats |-> DefaultFormats, present_modes |-> DefaultPresentModes] :
        c \in Extents \cup {UndefinedExtent}, b \in ExtentBounds}
    \cup
    {[capabilities |->
        [DefaultCapabilities EXCEPT !.min_image_count = lo,
                                    !.max_image_count = hi],
      formats |-> DefaultFormats, present_modes |-> DefaultPresentModes] :
        lo \in CountSamples, hi \in CountSamples}

\* choose_format: the first B8G8R8A8_SRGB / SRGB_NONLINEAR entry met by the
\* loop, else self.formats.first().unwrap().
RECURSIVE FormatScan(_, _)
FormatScan(formats, k) ==
    IF k > Len(formats) THEN formats[1]
    ELSE IF /\ formats[k].format = "B8G8R8A8_SRGB"
            /\ formats[k].color_space = "SRGB_NONLINEAR"
         THEN formats[k]
         ELSE FormatScan(formats, k + 1)

choose_format_first(support) == support.formats[1]
choose_format(support) == FormatScan(support.formats, 1)

\* choose_present_mode: MAILBOX as soon as the loop meets it, else FIFO.
RECURSIVE PresentModeScan(_, _)
PresentModeScan(modes, k) ==
    IF k > Len(modes) THEN "FIFO"
    ELSE IF modes[k] = "MAILBOX" THEN modes[k]
         ELSE PresentModeScan(modes, k + 1)

choose_present_mode_head(support) ==
    IF Len(support.present_modes) > 0 /\ support.present_modes[1] = "MAILBOX"
    THEN "MAILBOX" ELSE "FIFO"
choose_present_mode(support) == PresentModeScan(support.present_modes, 1)

\* choose_extent: current_extent when its width is not u32::MAX, else
\* 1280 x 720 with .max(min_image_extent).min(max_image_extent) per dimension.
choose_extent_unclamped(support) ==
    IF support.capabilities.current_extent.width # U32_MAX
    THEN support.capabilities.current_extent
    ELSE [width |-> U32(WindowWidth), height |-> U32(WindowHeight)]
choose_extent(support) ==
    IF support.capabilities.current_extent.width # U32_MAX
    THEN support.capabilities.current_extent
    ELSE [width |->
            U32Min(U32Max(U32(WindowWidth),
                          support.capabilities.min_image_extent.width),
                   support.capabilities.max_image_extent.width),
          height |->
            U32Min(U32Max(U32(WindowHeight),
                          support.capabilities.min_image_extent.height),
                   support.capabilities.max_image_extent.height)]

\* image_count = min_image_count + 1, then .min(max_image_count) when
\* max_image_count > 0; sum is what the addition produced.
ClampImageCount(sum, capabilities) ==
    IF U32Lt(U32(0), capabilities.max_image_count)
    THEN U32Min(sum, capabilities.max_image_count)
    ELSE sum

InitSwapchain ==
    /\ LoopNotStarted
    /\ ResourcesNotRun
    /\ PickNotRun
    /\ SetupNotRun
    /\ fn_pc = "choose_format"
    /\ swapchain_support \in SupportDetails
    /\ surface_format = NotRun
    /\ present_mode = NotRun
    /\ swapchain_extent = NotRun
    /\ image_count = NotRun

otherThanSwap ==
    <<appVars, deviceVars, sync_objects, resourceVars, pickVars, setupVars>>

\* let surface_format = swapchain_support.choose_format();
ChooseFormat ==
    /\ fn_pc = "choose_format"
    /\ surface_format' = choose_format(swapchain_support)
    /\ fn_pc' = "choose_present_mode"
    /\ UNCHANGED <<swapchain_support, present_mode, swapchain_extent,
                   image_count>>
    /\ UNCHANGED otherThanSwap

\* let present_mode = swapchain_support.choose_present_mode();
ChoosePresentMode ==
    /\ fn_pc = "choose_present_mode"
    /\ present_mode' = choose_present_mode(swapchain_support)
    /\ fn_pc' = "choose_extent"
    /\ UNCHANGED <<swapchain_support, surface_format, swapchain_extent,
                   image_count>>
    /\ UNCHANGED otherThanSwap

\* let swapchain_extent = swapchain_support.choose_extent();
ChooseExtent ==
    /\ fn_pc = "choose_extent"
    /\ swapchain_extent' = choose_extent(swapchain_support)
    /\ fn_pc' = "image_count"
    /\ UNCHANGED <<swapchain_support, surface_format, present_mode,
                   image_count>>
    /\ UNCHANGED otherThanSwap

\* let image_count = min_image_count + 1; then the clamp.  At
\* min_image_count = u32::MAX the addition overflows: a build with overflow
\* checks panics there, a build without them wraps to 0.
ImageCount ==
    /\ fn_pc = "image_count"
    /\ \/ /\ fn_pc' = "swapchain_done"
          /\ image_count' =
               ClampImageCount(
                   WrappingAddOne(swapchain_support.capabilities.min_image_count),
                   swapchain_support.capabilities)
       \/ /\ swapchain_support.capabilities.min_image_count = U32_MAX
          /\ fn_pc' = "panicked"
          /\ image_count' = image_count
    /\ UNCHANGED <<swapchain_support, surface_format, present_mode,
                   swapchain_extent>>
    /\ UNCHANGED otherThanSwap

NextSwapchain ==
    \/ ChooseFormat
    \/ ChoosePresentMode
    \/ ChooseExtent
    \/ ImageCount

SpecSwapchain == InitSwapchain /\ [][NextSwapchain]_vars

\* Positions of create_swapchain after the named step has run.
AfterChooseFormat ==
    {"choose_present_mode", "choose_extent", "image_count", "swapchain_done",
     "panicked"}
AfterChoosePresentMode ==
    {"choose_extent", "image_count", "swapchain_done", "panicked"}
AfterChooseExtent == {"image_count", "swapchain_done", "panicked"}

\* C15: the image-count step always yields a count; the count is
\* min_image_count + 1 when max_image_count = 0 and
\* min(min_image_count + 1, max_image_count) otherwise, so it is at least
\* min_image_count whenever min_image_count <= max_image_count or
\* max_image_count = 0, and at most max_image_count whenever
\* max_image_count > 0 -- over 32-bit values up to u32::MAX.
C15_ImageCountWithinBounds ==
    /\ fn_pc # "panicked"
    /\ fn_pc = "swapchain_done" =>
         LET lo == swapchain_support.capabilities.min_image_count
             hi == swapchain_support.capabilities.max_image_count
         IN /\ hi = U32(0) => IsSuccessor(lo, image_count)
            /\ hi # U32(0) =>
                 \E sum \in {WrappingAddOne(lo)} :
                     /\ IsSuccessor(lo, sum)
                     /\ image_count = U32Min(sum, hi)
            /\ (U32Le(lo, hi) \/ hi = U32(0)) => U32Le(lo, image_count)
            /\ hi # U32(0) => U32Le(image_count, hi)

\* C16: on a non-empty format list choose_format returns the
\* B8G8R8A8_SRGB / SRGB_NONLINEAR entry when the list holds one at any
\* position, and the first entry of the list otherwise; the result is always
\* an entry of the list.
C16_ChooseFormatPrefersSrgb ==
    fn_pc \in AfterChooseFormat =>
        LET f == swapchain_support.formats
            preferred == {k \in DOMAIN f :
                            /\ f[k].format = "B8G8R8A8_SRGB"
                            /\ f[k].color_space = "SRGB_NONLINEAR"}
        IN /\ preferred # {} =>
                \E k \in preferred :
                    /\ surface_format = f[k]
                    /\ \A j \in preferred : k <= j
           /\ preferred = {} => surface_format = f[1]
           /\ \E k \in DOMAIN f : surface_format = f[k]

C16_Witness ==
    /\ fn_pc = "swapchain_done"
    /\ Len(swapchain_support.formats) = 3
    /\ swapchain_support.formats[1] =
         [format |-> "R8G8B8A8_UNORM", color_space |-> "SRGB_NONLINEAR"]
    /\ swapchain_support.formats[2] =
         [format |-> "B8G8R8A8_SRGB", color_space |-> "DISPLAY_P3_NONLINEAR"]
    /\ swapchain_support.formats[3] = PreferredFormat
    /\ surface_format = swapchain_support.formats[3]

\* C17: choose_present_mode returns MAILBOX when MAILBOX is anywhere in the
\* present-mode list and FIFO otherwise, whatever the order of the list and
\* whatever other modes it holds (the empty list included).
C17_ChoosePresentModePrefersMailbox ==
    fn_pc \in AfterChoosePresentMode =>
        present_mode =
            IF \E k \in DOMAIN swapchain_support.present_modes :
                   swapchain_support.present_modes[k] = "MAILBOX"
            THEN "MAILBOX"
            ELSE "FIFO"

C17_Witness ==
    /\ fn_pc = "swapchain_done"
    /\ swapchain_support.present_modes = <<"IMMEDIATE", "FIFO", "MAILBOX">>
    /\ present_mode = "MAILBOX"

\* C18: choose_extent returns the current extent unchanged when it is defined
\* (width not u32::MAX); when it is undefined it returns 1280 x 720 with each
\* dimension clamped into [min_image_extent, max_image_extent], so the result
\* lies within the capability bounds in both dimensions.
C18_ChooseExtentClamps ==
    fn_pc \in AfterChooseExtent =>
        LET c == swapchain_support.capabilities
            InBounds(x, lo, hi) == U32Le(lo, x) /\ U32Le(x, hi)
            Clamped(x, want, lo, hi) ==
                /\ InBounds(x, lo, hi)
                /\ InBounds(want, lo, hi) => x = want
                /\ U32Lt(want, lo) => x = lo
                /\ U32Lt(hi, want) => x = hi
        IN IF c.current_extent.width # U32_MAX
           THEN swapchain_extent = c.current_extent
           ELSE /\ Clamped(swapchain_extent.width, U32(WindowWidth),
                           c.min_image_extent.width, c.max_image_extent.width)
                /\ Clamped(swapchain_extent.height, U32(WindowHeight),
                           c.min_image_extent.height,
                           c.max_image_extent.height)

C18_Witness ==
    /\ fn_pc = "swapchain_done"
    /\ swapchain_support.capabilities.current_extent = UndefinedExtent
    /\ swapchain_support.capabilities.min_image_extent.width = U32(4096)
    /\ swapchain_support.capabilities.max_image_extent.height = U32(1)
    /\ swapchain_extent = [width |-> U32(4096), height |-> U32(1)]

\* ---------------------------------------------------------------- physical device
\* pick_physical_device and the suitability test it applies to each
\* enumerated device.

\* At most MaxDevices physical devices are enumerated.
MaxDevices == 3

\* Option<u32>::None for a queue family index
NoFamily == -1
\* Option::None for the result of Iterator::find
NoDevice == 0

DEVICE_EXTENSIONS == {"VK_KHR_swapchain"}

QueueFamily(count, graphics, present) ==
    [queue_count |-> count, graphics |-> graphics, present |-> present]

\* What the instance and the surface report about one physical device: its
\* queue families (with get_physical_device_surface_support per family), its
\* device extensions, and the surface formats and present modes queried by
\* SwapChainSupportDetail::query.
Device(families, extensions, formats, modes) ==
    [queue_families |-> families, extensions |-> extensions,
     formats |-> formats, present_modes |-> modes]

DeviceProfiles ==
    { \* one family that does graphics and presentation
      Device(<<QueueFamily(1, TRUE, TRUE)>>, <<"VK_KHR_swapchain">>,
             DefaultFormats, DefaultPresentModes),
      \* graphics and presentation on different families
      Device(<<QueueFamily(1, TRUE, FALSE), QueueFamily(2, FALSE, TRUE)>>,
             <<"VK_KHR_maintenance1", "VK_KHR_swapchain">>,
             DefaultFormats, <<"MAILBOX", "FIFO">>),
      \* no graphics family
      Device(<<QueueFamily(1, FALSE, TRUE)>>, <<"VK_KHR_swapchain">>,
             DefaultFormats, DefaultPresentModes),
      \* the only graphics and present family has no queues
      Device(<<QueueFamily(0, TRUE, TRUE), QueueFamily(1, TRUE, FALSE)>>,
             <<"VK_KHR_swapchain">>, DefaultFormats, DefaultPresentModes),
      \* no swapchain extension
      Device(<<QueueFamily(1, TRUE, TRUE)>>, <<"VK_KHR_maintenance1">>,
             DefaultFormats, DefaultPresentModes),
      \* no surface format
      Device(<<QueueFamily(1, TRUE, TRUE)>>, <<"VK_KHR_swapchain">>,
             <<>>, DefaultPresentModes),
      \* no present mode
      Device(<<QueueFamily(1, TRUE, TRUE)>>, <<"VK_KHR_swapchain">>,
             DefaultFormats, <<>>) }

DeviceLists == UNION {[1 .. n -> DeviceProfiles] : n \in 0 .. MaxDevices}

is_complete(indices) ==
    indices.graphics_family # NoFamily /\ indices.present_family # NoFamily

\* The loop of find_queue_family at the k-th family; index is the counter the
\* loop keeps beside the iterator.
RECURSIVE QueueFamilyLoop(_, _, _, _)
QueueFamilyLoop(families, k, index, indices) ==
    IF k > Len(families) THEN indices
    ELSE LET withGraphics ==
                 IF families[k].queue_count > 0 /\ families[k].graphics
                 THEN [indices EXCEPT !.graphics_family = index]
                 ELSE indices
             withPresent ==
                 IF families[k].queue_count > 0 /\ families[k].present
                 THEN [withGraphics EXCEPT !.present_family = index]
                 ELSE withGraphics
         IN IF is_complete(withPresent) THEN withPresent
            ELSE QueueFamilyLoop(families, k + 1, index + 1, withPresent)

\* A search that reports position 0 for whatever it found.
find_queue_family_unindexed(device) ==
    LET found == QueueFamilyLoop(device.queue_families, 1, 0,
                     [graphics_family |-> NoFamily, present_family |-> NoFamily])
    IN [graphics_family |->
            IF found.graphics_family = NoFamily THEN NoFamily ELSE 0,
        present_family |->
            IF found.present_family = NoFamily THEN NoFamily ELSE 0]

find_queue_family(device) ==
    QueueFamilyLoop(device.queue_families, 1, 0,
                    [graphics_family |-> NoFamily, present_family |-> NoFamily])

\* required_extensions starts as DEVICE_EXTENSIONS, loses every available
\* name, and must end empty.
check_device_extension_support(device) ==
    DEVICE_EXTENSIONS
        \ {device.extensions[k] : k \in DOMAIN device.extensions} = {}

\* A test that never looks at the swapchain support of the device.
is_physical_device_suitable_unqueried(device) ==
    /\ is_complete(find_queue_family(device))
    /\ check_device_extension_support(device)

is_physical_device_suitable(device) ==
    LET is_queue_family_supported == is_complete(find_queue_family(device))
        is_device_extension_supported == check_device_extension_support(device)
        is_swapchain_supported ==
            IF is_device_extension_supported
            THEN Len(device.formats) # 0 /\ Len(device.present_modes) # 0
            ELSE FALSE
    IN /\ is_queue_family_supported
       /\ is_device_extension_supported
       /\ is_swapchain_supported

\* physical_devices.iter().find(..): the position of the first device the
\* closure accepts, from position k on.
RECURSIVE FindSuitable(_, _)
FindSuitable(devices, k) ==
    IF k > Len(devices) THEN NoDevice
    ELSE IF is_physical_device_suitable(devices[k]) THEN k
         ELSE FindSuitable(devices, k + 1)

RECURSIVE FindSuitableLast(_, _)
FindSuitableLast(devices, k) ==
    IF k < 1 THEN NoDevice
    ELSE IF is_physical_device_suitable(devices[k]) THEN k
         ELSE FindSuitableLast(devices, k - 1)

pick_physical_device_last(devices) == FindSuitableLast(devices, Len(devices))
pick_physical_device(devices) == FindSuitable(devices, 1)

InitDevice ==
    /\ LoopNotStarted
    /\ SwapNotRun
    /\ ResourcesNotRun
    /\ fn_pc = "pick_physical_device"
    /\ physical_devices \in DeviceLists
    /\ physical_device = NotRun
    /\ SetupNotRun

otherThanPick ==
    <<appVars, deviceVars, sync_objects, swapVars, resourceVars, setupVars>>

\* pick_physical_device: the find, then result.expect("Failed to find a
\* suitable GPU!").
PickPhysicalDevice ==
    /\ fn_pc = "pick_physical_device"
    /\ LET result == pick_physical_device(physical_devices)
       IN IF result = NoDevice
          THEN /\ fn_pc' = "panicked"
               /\ physical_device' = physical_device
          ELSE /\ fn_pc' = "device_picked"
               /\ physical_device' = result
    /\ UNCHANGED physical_devices
    /\ UNCHANGED otherThanPick

NextDevice == PickPhysicalDevice

SpecDevice == InitDevice /\ [][NextDevice]_vars

\* C20: pick_physical_device returns the suitable device at the smallest
\* position of the enumeration, and ends the process with a fatal error when
\* no enumerated device is suitable, the empty enumeration included.
C20_PicksFirstSuitableDevice ==
    LET suitable == {k \in DOMAIN physical_devices :
                        is_physical_device_suitable(physical_devices[k])}
    IN /\ fn_pc = "device_picked" =>
            /\ physical_device \in suitable
            /\ \A k \in suitable : physical_device <= k
       /\ fn_pc = "panicked" => suitable = {}
       /\ (fn_pc # "pick_physical_device" /\ suitable = {}) =>
            fn_pc = "panicked"

C20_Witness ==
    /\ fn_pc = "device_picked"
    /\ Len(physical_devices) = 3
    /\ ~is_physical_device_suitable(physical_devices[1])
    /\ is_physical_device_suitable(physical_devices[2])
    /\ is_physical_device_suitable(physical_devices[3])
    /\ physical_devices[2] # physical_devices[3]
    /\ physical_device = 2

\* ---------------------------------------------------------------- logical device
\* One enumerated device taken through is_physical_device_suitable and, when
\* it is suitable (so that pick_physical_device can return it),
\* create_logical_device and the two get_device_queue calls of
\* VulkanApp::initialize.

\* A device reports at most MaxFamilies queue families and at most
\* MaxExtensions device extensions.
MaxFamilies == 3
MaxExtensions == 2

QueueFamilies ==
    {QueueFamily(n, g, p) : n \in {0, 1}, g \in BOOLEAN, p \in BOOLEAN}
QueueFamilyLists == UNION {[1 .. n -> QueueFamilies] : n \in 0 .. MaxFamilies}
ExtensionNames == {"VK_KHR_swapchain", "VK_KHR_maintenance1"}
ExtensionLists == UNION {[1 .. n -> ExtensionNames] : n \in 0 .. MaxExtensions}

Candidates ==
    {Device(families, extensions, formats, modes) :
        families \in QueueFamilyLists, extensions \in ExtensionLists,
        formats \in {<<>>, DefaultFormats},
        modes \in {<<>>, DefaultPresentModes}}

\* vk::DeviceQueueCreateInfo::builder().queue_family_index(f)
\*     .queue_priorities(&[1.0]): the builder sets queue_count to the length
\* of the priorities slice.
QueuePriorities == <<"1.0">>
DeviceQueueCreateInfo(family) ==
    [queue_family_index |-> family,
     queue_count |-> Len(QueuePriorities),
     queue_priorities |-> QueuePriorities]

\* The orders in which a set can be iterated.
Orderings(set) ==
    {order \in [1 .. Cardinality(set) -> set] :
        \A i, j \in DOMAIN order : i # j => order[i] # order[j]}

\* An entry for each of the two indices, equal or not.
queue_create_info_lists_repeated(indices) ==
    {<<DeviceQueueCreateInfo(indices.graphics_family),
       DeviceQueueCreateInfo(indices.present_family)>>}

\* unique_queue_families is a HashSet holding graphics_family and
\* present_family; queue_create_infos maps its iteration, whose order the
\* HashSet does not fix.
queue_create_info_lists(indices) ==
    {[k \in DOMAIN order |-> DeviceQueueCreateInfo(order[k])] :
        order \in Orderings({indices.graphics_family, indices.present_family})}

InitLogical ==
    /\ LoopNotStarted
    /\ SwapNotRun
    /\ ResourcesNotRun
    /\ PickNotRun
    /\ PipelineNotRun
    /\ MemoryNotRun
    /\ fn_pc = "is_physical_device_suitable"
    /\ candidate \in Candidates
    /\ is_suitable = NotRun
    /\ queue_family_indices = NotRun
    /\ queue_create_infos = NotRun

otherThanLogical ==
    <<appVars, deviceVars, sync_objects, swapVars, resourceVars, pickVars,
      pipelineVars, memoryVars>>

\* is_physical_device_suitable(candidate), as the closure of
\* pick_physical_device calls it; the find returns only a device it accepts.
IsPhysicalDeviceSuitable ==
    /\ fn_pc = "is_physical_device_suitable"
    /\ queue_family_indices' = find_queue_family(candidate)
    /\ is_suitable' = is_physical_device_suitable(candidate)
    /\ fn_pc' = IF is_physical_device_suitable(candidate)
                THEN "create_logical_device"
                ELSE "rejected"
    /\ UNCHANGED <<candidate, queue_create_infos>>
    /\ UNCHANGED otherThanLogical

\* create_logical_device: find_queue_family again, both unwraps, the
\* queue-create entries.
CreateLogicalDevice ==
    /\ fn_pc = "create_logical_device"
    /\ LET indices == find_queue_family(candidate)
       IN /\ queue_family_indices' = indices
          /\ IF indices.graphics_family = NoFamily
                \/ indices.present_family = NoFamily
             THEN /\ fn_pc' = "panicked"
                  /\ queue_create_infos' = queue_create_infos
             ELSE /\ fn_pc' = "get_device_queue"
                  /\ queue_create_infos' \in queue_create_info_lists(indices)
    /\ UNCHANGED <<candidate, is_suitable>>
    /\ UNCHANGED otherThanLogical

\* initialize: get_device_queue(queue_families.graphics_family.unwrap(), 0)
\* and get_device_queue(queue_families.present_family.unwrap(), 0).
GetDeviceQueues ==
    /\ fn_pc = "get_device_queue"
    /\ fn_pc' = IF queue_family_indices.graphics_family = NoFamily
                   \/ queue_family_indices.present_family = NoFamily
                THEN "panicked"
                ELSE "queues_got"
    /\ UNCHANGED logicalVars
    /\ UNCHANGED otherThanLogical

NextLogical ==
    \/ IsPhysicalDeviceSuitable
    \/ CreateLogicalDevice
    \/ GetDeviceQueues

SpecLogical == InitLogical /\ [][NextLogical]_vars

\* Family k of the candidate (counted from 0) can do graphics work, can
\* present to the surface.
GraphicsCapable(k) ==
    /\ k + 1 \in DOMAIN candidate.queue_families
    /\ candidate.queue_families[k + 1].queue_count > 0
    /\ candidate.queue_families[k + 1].graphics
PresentCapable(k) ==
    /\ k + 1 \in DOMAIN candidate.queue_families
    /\ candidate.queue_families[k + 1].queue_count > 0
    /\ candidate.queue_families[k + 1].present
FamilyPositions == 0 .. MaxFamilies

\* C21: a device is judged suitable exactly when some queue family supports
\* graphics, some queue family (the same or another) supports presentation,
\* VK_KHR_swapchain is among its extensions, and its surface-format list and
\* its present-mode list are both non-empty.
C21_SuitableIffAllFour ==
    fn_pc # "is_physical_device_suitable" =>
        (is_suitable <=>
            /\ \E k \in FamilyPositions : GraphicsCapable(k)
            /\ \E k \in FamilyPositions : PresentCapable(k)
            /\ \E k \in DOMAIN candidate.extensions :
                   candidate.extensions[k] = "VK_KHR_swapchain"
            /\ candidate.formats # <<>>
            /\ candidate.present_modes # <<>>)

C21_Witness ==
    /\ fn_pc = "rejected"
    /\ is_suitable = FALSE
    /\ \E k \in FamilyPositions : GraphicsCapable(k) /\ ~PresentCapable(k)
    /\ \E k \in FamilyPositions : PresentCapable(k) /\ ~GraphicsCapable(k)
    /\ candidate.extensions = <<"VK_KHR_maintenance1", "VK_KHR_swapchain">>
    /\ candidate.formats # <<>>
    /\ candidate.present_modes = <<>>

\* C22: create_logical_device passes one queue-create entry per distinct
\* index among graphics_family and present_family -- one entry when they are
\* equal, two entries with different indices when they differ -- and every
\* entry asks for one queue at priority 1.0.
C22_OneQueueEntryPerFamily ==
    fn_pc \in {"get_device_queue", "queues_got"} =>
        LET g == queue_family_indices.graphics_family
            p == queue_family_indices.present_family
        IN /\ Len(queue_create_infos) = IF g = p THEN 1 ELSE 2
           /\ {queue_create_infos[k].queue_family_index :
                  k \in DOMAIN queue_create_infos} = {g, p}
           /\ \A i, j \in DOMAIN queue_create_infos :
                  i # j => queue_create_infos[i].queue_family_index
                             # queue_create_infos[j].queue_family_index
           /\ \A k \in DOMAIN queue_create_infos :
                  /\ queue_create_infos[k].queue_count = 1
                  /\ queue_create_infos[k].queue_priorities = <<"1.0">>

C22_Witness ==
    /\ fn_pc = "queues_got"
    /\ queue_family_indices.graphics_family = queue_family_indices.present_family
    /\ Len(candidate.queue_families) = 3
    /\ queue_family_indices.graphics_family = 2
    /\ Len(queue_create_infos) = 1

\* C28: find_queue_family returns a graphics_family that, when set, is the
\* index of a family with queue_count > 0 and the GRAPHICS flag, and a
\* present_family that, when set, is the index of a family with
\* queue_count > 0 that can present to the surface; the result is complete
\* exactly when the device has a family of each kind, so on a suitable device
\* the unwraps of create_logical_device and of initialize never fail.
C28_QueueFamilyIndicesValid ==
    /\ fn_pc # "is_physical_device_suitable" =>
         LET g == queue_family_indices.graphics_family
             p == queue_family_indices.present_family
         IN /\ g # NoFamily => GraphicsCapable(g)
            /\ p # NoFamily => PresentCapable(p)
            /\ (g # NoFamily /\ p # NoFamily) <=>
                 /\ \E k \in FamilyPositions : GraphicsCapable(k)
                 /\ \E k \in FamilyPositions : PresentCapable(k)
    /\ fn_pc # "panicked"

C28_Witness ==
    /\ fn_pc = "queues_got"
    /\ Len(candidate.queue_families) = 3
    /\ ~GraphicsCapable(0) /\ ~PresentCapable(0)
    /\ queue_family_indices.graphics_family = 1
    /\ queue_family_indices.present_family = 2

\* C23: for every framebuffer i exactly one primary command buffer is
\* recorded, once, with the commands in this order: begin buffer
\* (SIMULTANEOUS_USE), begin render pass on framebuffer i with one opaque-black
\* clear value, bind graphics pipeline, bind the vertex buffer at binding 0
\* offset 0, draw 3 vertices / 1 instance, end render pass, end buffer.
C23_CommandSequence ==
    fn_pc = "resources_done" =>
        /\ Len(recorded_command_buffers) = Len(swapchain_framebuffers)
        /\ \A i, j \in DOMAIN recorded_command_buffers :
               i # j => recorded_command_buffers[i].handle
                          # recorded_command_buffers[j].handle
        /\ \A i \in DOMAIN recorded_command_buffers :
             LET commands == recorded_command_buffers[i].commands
             IN /\ recorded_command_buffers[i].level = "PRIMARY"
                /\ [k \in DOMAIN commands |-> commands[k].op] =
                     <<"begin_command_buffer", "cmd_begin_render_pass",
                       "cmd_bind_pipeline", "cmd_bind_vertex_buffers",
                       "cmd_draw", "cmd_end_render_pass",
                       "end_command_buffer">>
                /\ commands[1].flags = "SIMULTANEOUS_USE"
                /\ commands[2].framebuffer = swapchain_framebuffers[i]
                /\ commands[2].clear_values = <<<<0, 0, 0, 1>>>>
                /\ commands[3].bind_point = "GRAPHICS"
                /\ commands[4].first_binding = 0
                /\ commands[4].offsets = <<0>>
                /\ commands[5].vertex_count = 3
                /\ commands[5].instance_count = 1

\* C24: without swapchain recreation draw_frame re-records nothing: every
\* step of it leaves the swapchain images, the image views, the framebuffers,
\* the recorded command buffers, the sync-object handles and the set of live
\* objects (swapchain, render pass, pipeline, command pool among them) as they
\* were; of the renderer's fields only current_frame is written.
C24_DrawFrameKeepsResources ==
    [][call_log' # call_log =>
          /\ swapchain_images' = swapchain_images
          /\ swapchain_imageviews' = swapchain_imageviews
          /\ swapchain_framebuffers' = swapchain_framebuffers
          /\ recorded_command_buffers' = recorded_command_buffers
          /\ sync_objects' = sync_objects
          /\ live' = live]_vars

C24_Witness ==
    /\ phase = "running"
    /\ call_log # <<>>
    /\ Last(call_log) = "queue_present"
    /\ last_result = "SUBOPTIMAL"
    /\ current_frame = 1
    /\ Len(recorded_command_buffers) = NumImages
    /\ recorded_command_buffers = create_command_buffers(swapchain_framebuffers)
    /\ live = AllObjects

\* ---------------------------------------------------------------- graphics pipeline
\* create_gfx_pipeline as the sequence of device calls it makes; every
\* create call is followed by .expect(..), so an error result panics where it
\* is returned.

NoModule == 0
ShaderModuleHandles == 1 .. MaxHandle

\* The statement after each statement of create_gfx_pipeline.
NextPipelineStepDestroyFirst(p) ==
    CASE p = "create_vert_shader" -> "create_frag_shader"
      [] p = "create_frag_shader" -> "create_pipeline_layout"
      [] p = "create_pipeline_layout" -> "destroy_vert_shader"
      [] p = "destroy_vert_shader" -> "destroy_frag_shader"
      [] p = "destroy_frag_shader" -> "create_graphics_pipelines"
      [] p = "create_graphics_pipelines" -> "return"
      [] p = "return" -> "pipeline_done"

NextPipelineStep(p) ==
    CASE p = "create_vert_shader" -> "create_frag_shader"
      [] p = "create_frag_shader" -> "create_pipeline_layout"
      [] p = "create_pipeline_layout" -> "create_graphics_pipelines"
      [] p = "create_graphics_pipelines" -> "destroy_vert_shader"
      [] p = "destroy_vert_shader" -> "destroy_frag_shader"
      [] p = "destroy_frag_shader" -> "return"
      [] p = "return" -> "pipeline_done"

InitPipeline ==
    /\ LoopNotStarted
    /\ SwapNotRun
    /\ ResourcesNotRun
    /\ PickNotRun
    /\ LogicalNotRun
    /\ MemoryNotRun
    /\ fn_pc = "create_vert_shader"
    /\ shader_modules =
         [vert_shader |-> NoModule, frag_shader |-> NoModule, live |-> {}]
    /\ pipeline_log = <<>>

otherThanPipeline ==
    <<appVars, deviceVars, sync_objects, swapVars, resourceVars, pickVars,
      logicalVars, memoryVars>>

\* A create call returned r: the call is logged, and .expect(..) lets the
\* function go on only after SUCCESS.
CreateReturns(call, handle, r) ==
    /\ pipeline_log' =
         Append(pipeline_log,
                [call |-> call,
                 handle |-> IF r = "SUCCESS" THEN handle ELSE NoModule,
                 result |-> r])
    /\ fn_pc' = IF r = "SUCCESS" THEN NextPipelineStep(fn_pc) ELSE "panicked"

\* let vert_shader = create_shader_module(&device, &mut vert_file);
CreateVertShader ==
    /\ fn_pc = "create_vert_shader"
    /\ \E r \in PlainResults :
        \E h \in ShaderModuleHandles \ shader_modules.live :
            /\ CreateReturns("create_shader_module", h, r)
            /\ shader_modules' =
                 IF r = "SUCCESS"
                 THEN [shader_modules EXCEPT !.vert_shader = h,
                                             !.live = @ \cup {h}]
                 ELSE shader_modules
    /\ UNCHANGED otherThanPipeline

\* let frag_shader = create_shader_module(&device, &mut frag_file);
CreateFragShader ==
    /\ fn_pc = "create_frag_shader"
    /\ \E r \in PlainResults :
        \E h \in ShaderModuleHandles \ shader_modules.live :
            /\ CreateReturns("create_shader_module", h, r)
            /\ shader_modules' =
                 IF r = "SUCCESS"
                 THEN [shader_modules EXCEPT !.frag_shader = h,
                                             !.live = @ \cup {h}]
                 ELSE shader_modules
    /\ UNCHANGED otherThanPipeline

\* device.create_pipeline_layout(..).expect("Failed to create pipeline layout!")
CreatePipelineLayout ==
    /\ fn_pc = "create_pipeline_layout"
    /\ \E r \in PlainResults :
        CreateReturns("create_pipeline_layout", NoModule, r)
    /\ UNCHANGED shader_modules
    /\ UNCHANGED otherThanPipeline

\* device.create_graphics_pipelines(PipelineCache::null(), &[info], None)
\*     .expect("Failed to create graphics pipeline!")
CreateGraphicsPipelines ==
    /\ fn_pc = "create_graphics_pipelines"
    /\ \E r \in PlainResults :
        CreateReturns("create_graphics_pipelines", NoModule, r)
    /\ UNCHANGED shader_modules
    /\ UNCHANGED otherThanPipeline

\* device.destroy_shader_module(vert_shader, None);
DestroyVertShader ==
    /\ fn_pc = "destroy_vert_shader"
    /\ pipeline_log' =
         Append(pipeline_log,
                [call |-> "destroy_shader_module",
                 handle |-> shader_modules.vert_shader, result |-> "SUCCESS"])
    /\ shader_modules' =
         [shader_modules EXCEPT !.live = @ \ {shader_modules.vert_shader}]
    /\ fn_pc' = NextPipelineStep(fn_pc)
    /\ UNCHANGED otherThanPipeline

\* device.destroy_shader_module(frag_shader, None);
DestroyFragShader ==
    /\ fn_pc = "destroy_frag_shader"
    /\ pipeline_log' =
         Append(pipeline_log,
                [call |-> "destroy_shader_module",
                 handle |-> shader_modules.frag_shader, result |-> "SUCCESS"])
    /\ shader_modules' =
         [shader_modules EXCEPT !.live = @ \ {shader_modules.frag_shader}]
    /\ fn_pc' = NextPipelineStep(fn_pc)
    /\ UNCHANGED otherThanPipeline

\* graphics_pipeline[0]
ReturnPipeline ==
    /\ fn_pc = "return"
    /\ fn_pc' = NextPipelineStep(fn_pc)
    /\ UNCHANGED pipelineVars
    /\ UNCHANGED otherThanPipeline

NextPipeline ==
    \/ CreateVertShader
    \/ CreateFragShader
    \/ CreatePipelineLayout
    \/ CreateGraphicsPipelines
    \/ DestroyVertShader
    \/ DestroyFragShader
    \/ ReturnPipeline

SpecPipeline == InitPipeline /\ [][NextPipeline]_vars

\* Positions of the log at which call was made and returned SUCCESS.
Made(call) ==
    {k \in DOMAIN pipeline_log :
        pipeline_log[k].call = call /\ pipeline_log[k].result = "SUCCESS"}
\* Positions at which shader module h was destroyed.
Destroyed(h) ==
    {k \in Made("destroy_shader_module") : pipeline_log[k].handle = h}

\* C25: in create_gfx_pipeline both shader modules are created before the
\* pipeline-creation call, and each is destroyed exactly once, after that call
\* has returned and before the function returns; on the success path no
\* shader module is alive once the function has returned.
C25_ShaderModulesDestroyedAfterPipeline ==
    /\ \A k \in DOMAIN pipeline_log :
         pipeline_log[k].call = "create_graphics_pipelines" =>
            /\ Cardinality({j \in Made("create_shader_module") : j < k}) = 2
            /\ shader_modules.vert_shader # NoModule
            /\ shader_modules.frag_shader # NoModule
            /\ shader_modules.vert_shader # shader_modules.frag_shader
    /\ \A k \in Made("destroy_shader_module") :
         \E j \in Made("create_graphics_pipelines") : j < k
    /\ \A h \in ShaderModuleHandles : Cardinality(Destroyed(h)) <= 1
    /\ fn_pc \in {"return", "pipeline_done"} =>
         /\ Cardinality(Destroyed(shader_modules.vert_shader)) = 1
         /\ Cardinality(Destroyed(shader_modules.frag_shader)) = 1
         /\ shader_modules.live = {}

C25_Witness ==
    /\ fn_pc = "pipeline_done"
    /\ shader_modules.vert_shader = 2
    /\ shader_modules.frag_shader = 1
    /\ shader_modules.live = {}
    /\ Len(pipeline_log) = 6

\* ---------------------------------------------------------------- memory type
\* find_memory_type, as create_vertex_buffer calls it on the buffer's
\* memory_type_bits and the physical device's memory properties.

\* PhysicalDeviceMemoryProperties.memory_types is an array of
\* VK_MAX_MEMORY_TYPES entries; the loop visits all of them.
VK_MAX_MEMORY_TYPES == 32

\* A device reports at most MaxMemoryTypes memory types; the entries of the
\* array past memory_type_count have no property flag.
MaxMemoryTypes == 3

HalfBits == 16

\* x & y on two 16-bit halves
RECURSIVE BitAnd(_, _)
BitAnd(x, y) ==
    IF x = 0 \/ y = 0 THEN 0
    ELSE (x % 2) * (y % 2) + 2 * BitAnd(x \div 2, y \div 2)

\* a & b on u32
U32And(a, b) == [hi |-> BitAnd(a.hi, b.hi), lo |-> BitAnd(a.lo, b.lo)]
\* 1 << i on u32, for i < 32
ShiftLeftOne(i) ==
    IF i < HalfBits THEN [hi |-> 0, lo |-> 2 ^ i]
    ELSE [hi |-> 2 ^ (i - HalfBits), lo |-> 0]

\* The u32 whose set bits are the positions in bits.
RECURSIVE HalfFromBits(_, _, _)
HalfFromBits(bits, base, k) ==
    IF k >= HalfBits THEN 0
    ELSE (IF base + k \in bits THEN 2 ^ k ELSE 0)
           + HalfFromBits(bits, base, k + 1)
U32FromBits(bits) ==
    [hi |-> HalfFromBits(bits, HalfBits, 0), lo |-> HalfFromBits(bits, 0, 0)]

MemoryPropertyFlagSets ==
    {{}, {"DEVICE_LOCAL"}, {"HOST_VISIBLE"},
     {"HOST_VISIBLE", "HOST_COHERENT"},
     {"DEVICE_LOCAL", "HOST_VISIBLE", "HOST_COHERENT"}}

\* memory_type_bits: bits of the reported types, and bits 16 and 31 to reach
\* both halves of the u32.
TypeFilterBits == (0 .. MaxMemoryTypes) \cup {16, 31}
TypeFilters == {U32FromBits(bits) : bits \in SUBSET TypeFilterBits}

MemoryTypeArrays ==
    UNION {{[i \in 0 .. VK_MAX_MEMORY_TYPES - 1 |->
               [property_flags |-> IF i < n THEN flags[i] ELSE {}]] :
            flags \in [0 .. n - 1 -> MemoryPropertyFlagSets]} :
           n \in 0 .. MaxMemoryTypes}

\* create_vertex_buffer asks for HOST_VISIBLE | HOST_COHERENT.
RequiredProperties ==
    {{"HOST_VISIBLE", "HOST_COHERENT"}, {"DEVICE_LOCAL"}, {}}

MemoryRequests ==
    [type_filter : TypeFilters, required_properties : RequiredProperties,
     memory_types : MemoryTypeArrays]

\* Iterator::find_map has run out of memory types.
NoMemoryType == -1

\* for (i, memory_type) in memory_types.iter().enumerate(): return i at the
\* first i with (type_filter & (1 << i)) > 0 and
\* property_flags.contains(required_properties).
RECURSIVE MemoryTypeLoop(_, _)
MemoryTypeLoop(request, i) ==
    IF i >= VK_MAX_MEMORY_TYPES THEN NoMemoryType
    ELSE IF /\ U32Lt(U32(0), U32And(request.type_filter, ShiftLeftOne(i)))
            /\ request.required_properties
                 \subseteq request.memory_types[i].property_flags
         THEN i
         ELSE MemoryTypeLoop(request, i + 1)

\* A search that looks at the property flags only.
RECURSIVE MemoryTypeLoopUnfiltered(_, _)
MemoryTypeLoopUnfiltered(request, i) ==
    IF i >= VK_MAX_MEMORY_TYPES THEN NoMemoryType
    ELSE IF request.required_properties
              \subseteq request.memory_types[i].property_flags
         THEN i
         ELSE MemoryTypeLoopUnfiltered(request, i + 1)

find_memory_type_unfiltered(request) == MemoryTypeLoopUnfiltered(request, 0)
find_memory_type(request) == MemoryTypeLoop(request, 0)

InitMemory ==
    /\ LoopNotStarted
    /\ SwapNotRun
    /\ ResourcesNotRun
    /\ PickNotRun
    /\ LogicalNotRun
    /\ PipelineNotRun
    /\ fn_pc = "find_memory_type"
    /\ memory_request \in MemoryRequests
    /\ memory_type = NotRun

otherThanMemory ==
    <<appVars, deviceVars, sync_objects, swapVars, resourceVars, pickVars,
      logicalVars, pipelineVars>>

\* find_memory_type: the index, or panic!("Failed to find suitable memory
\* type!") after the loop.
FindMemoryType ==
    /\ fn_pc = "find_memory_type"
    /\ LET found == find_memory_type(memory_request)
       IN IF found = NoMemoryType
          THEN /\ fn_pc' = "panicked"
               /\ memory_type' = memory_type
          ELSE /\ fn_pc' = "memory_type_found"
               /\ memory_type' = found
    /\ UNCHANGED memory_request
    /\ UNCHANGED otherThanMemory

NextMemory == FindMemoryType

SpecMemory == InitMemory /\ [][NextMemory]_vars

\* Memory type i is allowed by the type filter and has every required
\* property flag.
MemoryTypeFits(i) ==
    /\ LET half == IF i < HalfBits THEN memory_request.type_filter.lo
                   ELSE memory_request.type_filter.hi
       IN (half \div (2 ^ (i % HalfBits))) % 2 = 1
    /\ \A flag \in memory_request.required_properties :
           flag \in memory_request.memory_types[i].property_flags

\* C29: find_memory_type returns the smallest index i such that bit i of
\* type_filter is set and memory type i has all required property flags, and
\* ends the process with a panic when there is no such index; a returned
\* index always satisfies both conditions.
C29_FindMemoryTypeSmallestFit ==
    /\ fn_pc = "memory_type_found" =>
         /\ memory_type \in 0 .. VK_MAX_MEMORY_TYPES - 1
         /\ MemoryTypeFits(memory_type)
         /\ \A j \in 0 .. VK_MAX_MEMORY_TYPES - 1 :
                j < memory_type => ~MemoryTypeFits(j)
    /\ fn_pc = "panicked" =>
         \A j \in 0 .. VK_MAX_MEMORY_TYPES - 1 : ~MemoryTypeFits(j)

C29_Witness ==
    /\ fn_pc = "memory_type_found"
    /\ memory_request.required_properties = {"HOST_VISIBLE", "HOST_COHERENT"}
    /\ memory_request.type_filter = U32FromBits({0, 2, 31})
    /\ memory_request.memory_types[0].property_flags = {"DEVICE_LOCAL"}
    /\ memory_request.memory_types[1].property_flags =
         {"HOST_VISIBLE", "HOST_COHERENT"}
    /\ memory_request.memory_types[2].property_flags =
         {"DEVICE_LOCAL", "HOST_VISIBLE", "HOST_COHERENT"}
    /\ memory_type = 2

\* ---------------------------------------------------------------- semaphores and progress

\* C26: no binary semaphore is signalled again while an earlier signal on it
\* is pending: an acquire is given image_available[s] only when the submit
\* that waited on it has consumed the previous signal, and a batch signals
\* render_finished[s] only when the present that waited on it has consumed
\* the previous signal.
C26_NoSemaphoreResignal ==
    [][/\ (call_log' = Append(call_log, "acquire_next_image")
             /\ last_result' \in OkResults)
          => image_available_semaphores[current_frame] = "unsignaled"
       /\ Len(gfx_queue') < Len(gfx_queue)
          => render_finished_semaphores[gfx_queue[1].slot] = "unsignaled"]_vars

\* The frame loop with the progress its environment gives it: a device call
\* of draw_frame that can return Ok eventually returns (an error result stays
\* possible and is never forced), the statement after the present runs, the
\* presentation engine hands over acquired images, and the graphics queue
\* starts and completes the batches submitted to it.
Progress ==
    /\ WF_vars(WaitForFences /\ last_result' \in OkResults)
    /\ WF_vars(ResetFences /\ last_result' \in OkResults)
    /\ WF_vars(QueueSubmit /\ last_result' \in OkResults)
    /\ WF_vars(QueuePresent /\ last_result' \in OkResults)
    /\ WF_vars(AdvanceCounter)
    /\ WF_vars(\E s \in Slots : SignalImageAvailable(s))
    /\ WF_vars(\E k \in DOMAIN gfx_queue : GpuBegin(k))
    /\ WF_vars(GpuComplete)

FairSpec == Init /\ [][Next]_vars /\ Progress

\* acquire_next_image eventually returns.
AcquireReturns == (pc = "acquire") ~> (pc # "acquire" \/ phase = "panicked")

\* C27: the frame loop never blocks forever on a fence.  The fences start
\* signalled; while a slot's fence is unsignalled the frame that reset it is
\* about to submit, or its batch is on the graphics queue and will signal the
\* fence; so, if acquire_next_image eventually returns (and the GPU completes
\* what is submitted), every wait_for_fences eventually returns and every
\* started frame eventually reaches its queue_present; only a panic on an
\* error result cuts a frame short.
C27_NoFenceWaitForever ==
    /\ \A s \in Slots : in_flight_fences[s]
    /\ [](\A s \in Slots :
            ~in_flight_fences[s] =>
                \/ phase = "panicked"
                \/ pc = "submit" /\ current_frame = s
                \/ \E k \in DOMAIN gfx_queue : gfx_queue[k].slot = s)
    /\ AcquireReturns =>
         /\ (pc = "wait") ~> (pc = "acquire" \/ phase = "panicked")
         /\ (pc = "wait") ~>
              (phase = "panicked" \/
                 (call_log # <<>> /\ Last(call_log) = "queue_present"))

C27_Witness ==
    /\ phase = "running"
    /\ pc = "wait"
    /\ current_frame = 0
    /\ ~in_flight_fences[0]
    /\ Len(gfx_queue) = 2
    /\ present_queue # <<>>

====
